---- MODULE Spec2Model ----
(***************************************************************************)
(* Model of the inference orchestration of src/utils.py: demix (chunk      *)
(* scheduling, batching, backend dispatch, overlap-add accumulation,       *)
(* normalisation and result naming), _getWindowingArray, apply_tta and     *)
(* load_not_compatible_weights.                                            *)
(*                                                                         *)
(* Arrays are functions over 0..n-1, as in the source.  Samples are        *)
(* integers and quotients are exact fractions <<num, den>>: float32        *)
(* rounding is not modelled.  Window weights are stored as numerators      *)
(* over the common denominator WOne(fade_size), so that result and counter *)
(* are both scaled by the same factor and their quotient is the source's.  *)
(***************************************************************************)
EXTENDS Integers, Sequences, FiniteSets, TLC

VARIABLES
    config,            \* the ConfigDict fields demix reads
    model_type,        \* demix's model_type argument
    flags,             \* use_onnx / use_tensorrt / use_compile
    model,             \* behaviour of the backend callable
    mix_in,            \* the caller's mixture (channels x samples)
    pc,                \* position in demix: start, loop, done, raised
    mode,              \* 'generic' or 'demucs'
    chunk_size, num_instruments, step, fade_size, border, length_init,
    mix,               \* demix's working copy (padded in generic mode)
    result, counter,   \* accumulators, shape (instruments, channels, samples)
    i,                 \* scheduler position
    batch_data, batch_locations,
    normalized,        \* estimated_sources after nan_to_num, before stripping
    estimated_sources, \* estimated_sources after stripping
    instruments,       \* the names zipped with the rows (lines 549-552)
    ret,               \* what demix returns
    placements,        \* history: every (start, chunk_len) appended to batch_locations
    nbatch,            \* history: number of batches dispatched
    device,            \* tensorrt path: local name -> batch whose allocation it holds (0: none)
    call,              \* whose demix call runs: the caller's ("base") or apply_tta's
    track_proc_list,   \* apply_tta: the augmented mixtures
    waveforms_orig,    \* apply_tta: the dictionary it updates in place
    base_out,          \* history: waveforms_orig as passed to apply_tta
    aug_out,           \* history: what demix returned for each augmentation
    lpc,               \* position in load_not_compatible_weights: idle, start, done
    old_model,         \* torch.load(weights): the checkpoint mapping
    new_model,         \* model.state_dict() on entry (line 594)
    loaded,            \* new_model as filled and given to load_state_dict
    source_params,     \* history: the parameter mapping the checkpoint was built from
    windowing_array,   \* what _getWindowingArray returned (demix's local, line 394)
    arg_window_size,   \* _getWindowingArray's window_size argument
    arg_fade_size,     \* _getWindowingArray's fade_size argument
    wpc,               \* position in _getWindowingArray: idle, start, done, raised
    events             \* history: the chunk loop's steps in the order the code takes them

planVars == <<mode, chunk_size, num_instruments, step, fade_size, border, length_init>>
inputVars == <<config, model_type, flags, model, mix_in>>
outVars == <<normalized, estimated_sources, instruments, ret>>
ttaVars == <<call, track_proc_list, waveforms_orig, base_out, aug_out>>
loadVars == <<lpc, old_model, new_model, loaded, source_params>>
winVars == <<arg_window_size, arg_fade_size, wpc>>
vars == <<inputVars, pc, planVars, mix, result, counter, i, batch_data,
          batch_locations, outVars, placements, nbatch, device, ttaVars,
          loadVars, windowing_array, winVars, events>>

----------------------------------------------------------------------------
(* Bounds of the model *)
MaxLen == 22
MaxChunk == 21
MaxRate == 3
MaxSegment == 2
MaxOverlap == 3
MaxBatch == 3
MaxChannels == 2
MaxDim == 4
StallCap == 3
MaxWindow == 10

(* chunk_size // 10 *)
FadeDiv == 10

----------------------------------------------------------------------------
(* Array helpers *)
Min(a, b) == IF a < b THEN a ELSE b
Max(a, b) == IF a > b THEN a ELSE b

Channels(a) == Cardinality(DOMAIN a)
Width(a) == Cardinality(DOMAIN a[0])

RECURSIVE GCD(_, _)
GCD(a, b) == IF b = 0 THEN a ELSE GCD(b, a % b)

Abs(a) == IF a < 0 THEN -a ELSE a

(* A finite quotient, in lowest terms with a positive denominator *)
Frac(n, d) ==
    LET g == GCD(Abs(n), Abs(d))
        s == IF d < 0 THEN -1 ELSE 1
    IN  <<(s * n) \div g, (s * d) \div g>>

NaN == <<0, 0>>
PosInf == <<1, 0>>
NegInf == <<-1, 0>>

(* result / counter, line 539: IEEE division, 0/0 is NaN and x/0 is +-inf *)
Divide(r, c) ==
    IF c # 0 THEN Frac(r, c)
    ELSE IF r = 0 THEN NaN
    ELSE IF r > 0 THEN PosInf ELSE NegInf

(* the quotient left as the division gave it *)
NanToNum_Keep(q) == q

(* np.nan_to_num(..., nan=0.0), line 541: NaN becomes 0; +-inf become the  *)
(* largest finite floats, kept here as <<1, 0>> and <<-1, 0>>              *)
NanToNum(q) == IF q = NaN THEN <<0, 1>> ELSE q

----------------------------------------------------------------------------
(* the override ignored *)
prefer_target_instrument_Ignored(cfg) == cfg.instruments

(* prefer_target_instrument; target_instrument "" stands for None/absent *)
prefer_target_instrument(cfg) ==
    IF cfg.target_instrument # ""
    THEN <<cfg.target_instrument>>
    ELSE cfg.instruments

(* demix's use_onnx, use_tensorrt, use_compile arguments (lines 333-335) *)
FlagSets ==
    {[use_onnx |-> o, use_tensorrt |-> t, use_compile |-> c] :
        o \in BOOLEAN, t \in BOOLEAN, c \in BOOLEAN}

NativeFlags == [use_onnx |-> FALSE, use_tensorrt |-> FALSE, use_compile |-> FALSE]
OnnxFlags == [use_onnx |-> TRUE, use_tensorrt |-> FALSE, use_compile |-> FALSE]
TensorrtFlags == [use_onnx |-> FALSE, use_tensorrt |-> TRUE, use_compile |-> FALSE]
CompileFlags == [use_onnx |-> FALSE, use_tensorrt |-> FALSE, use_compile |-> TRUE]

(* lines 365-378: the mode is 'demucs' only off the native path for htdemucs *)
ModeOf(fl, mt) ==
    IF (fl.use_onnx \/ fl.use_tensorrt \/ fl.use_compile) /\ mt = "htdemucs"
    THEN "demucs"
    ELSE "generic"

(* lines 434, 448, 502, 511: which branch runs the batch *)
BackendPath(fl) ==
    IF fl.use_onnx THEN "onnx"
    ELSE IF fl.use_tensorrt THEN "tensorrt"
    ELSE IF fl.use_compile THEN "compile"
    ELSE "native"

(* the step multiplied by the overlap factor instead of divided *)
StepOf_Times(cs, ov) == cs * ov

(* the quotient rounded up *)
StepOf_Ceil(cs, ov) == (cs + ov - 1) \div ov

(* lines 384 and 391 *)
StepOf(cs, ov) == cs \div ov

(* Denominator of the window weights: linspace over fade_size points *)
WOne(fade) == IF fade <= 1 THEN 1 ELSE fade - 1

(* torch.linspace(0, 1, n)[k] and torch.linspace(1, 0, n)[k], times WOne(n) *)
FadeIn(n, k) == IF n <= 1 THEN 0 ELSE k

(* the fade-out built from the rising ramp *)
FadeOut_Rising(n, k) == IF n <= 1 THEN WOne(n) ELSE k

FadeOut(n, k) == IF n <= 1 THEN WOne(n) ELSE (n - 1) - k

(* _getWindowingArray for 0 < fade_size: ones, then the trailing fade-out, *)
(* then the leading fade-in (the later assignment wins where they overlap) *)
getWindowingArray(window_size, fade) ==
    [k \in 0..(window_size - 1) |->
        IF k < fade THEN FadeIn(fade, k)
        ELSE IF k >= window_size - fade THEN FadeOut(fade, k - (window_size - fade))
        ELSE WOne(fade)]

(* lines 515-519: the window used for one dispatched batch; ni is i after  *)
(* the increment of line 429, width is mix.shape[1]                        *)
BatchWindow(cs, fade, ni, st, width) ==
    LET w == getWindowingArray(cs, fade)
    IN  IF ni - st = 0
        THEN [k \in DOMAIN w |-> IF k < fade THEN WOne(fade) ELSE w[k]]
        ELSE IF ni >= width
        THEN [k \in DOMAIN w |-> IF k >= cs - fade THEN WOne(fade) ELSE w[k]]
        ELSE w

(* nn.functional.pad(mix, (border, border), mode="reflect"), line 397 *)
ReflectPadBoth(a, b) ==
    LET n == Width(a)
    IN  [c \in DOMAIN a |->
            [k \in 0..(n + 2 * b - 1) |->
                IF k < b THEN a[c][b - k]
                ELSE IF k < b + n THEN a[c][k - b]
                ELSE a[c][(n - 2) - (k - b - n)]]]

(* mix[:, i:i + chunk_size], line 419 *)
SliceChunk(a, from, cs) ==
    LET n == Min(cs, Width(a) - from)
    IN  [c \in DOMAIN a |-> [k \in 0..(n - 1) |-> a[c][from + k]]]

(* the threshold one sample too high *)
PadMode_OffByOne(md, chunk_len, cs) ==
    IF md = "generic" /\ chunk_len > cs \div 2 + 1 THEN "reflect" ELSE "constant"

(* lines 421-424 *)
PadMode(md, chunk_len, cs) ==
    IF md = "generic" /\ chunk_len > cs \div 2 THEN "reflect" ELSE "constant"

(* nn.functional.pad(part, (0, chunk_size - chunk_len), mode, value=0), line 425 *)
PadRight(part, cs, pad_mode) ==
    LET n == Width(part)
    IN  [c \in DOMAIN part |->
            [k \in 0..(cs - 1) |->
                IF k < n THEN part[c][k]
                ELSE IF pad_mode = "reflect" THEN part[c][(n - 2) - (k - n)]
                ELSE 0]]

(* The backend applied to one chunk of the stacked batch (lines 433-512):  *)
(* (channels, chunk) in, (instruments, channels, chunk) out.  The network  *)
(* is outside the repository; these are the behaviours it is given here.   *)
BackendRun(kind, ninst, arr) ==
    LET cs == Width(arr)
        nc == Channels(arr)
    IN  [n \in 0..(ninst - 1) |->
            [c \in 0..(nc - 1) |->
                [t \in 0..(cs - 1) |->
                    CASE kind = "identity" -> arr[c][t]
                      [] kind = "gain" -> (n + 2) * arr[c][t]
                      [] kind = "ramp" -> arr[c][t] + t + 1 + n
                      [] kind = "mirror" -> arr[c][(cs - 1) - t]
                      [] kind = "left" -> arr[0][t]]]]

RECURSIVE SumOver(_, _, _)
(* sum over j in 1..n of f[j] *)
SumOver(f, j, n) == IF j > n THEN 0 ELSE f[j] + SumOver(f, j + 1, n)

(* lines 521-527, the contribution of one batch to result at one sample *)
AddResult(md, locs, x, window, n, c, k) ==
    SumOver([j \in 1..Len(locs) |->
                IF locs[j][1] <= k /\ k < locs[j][1] + locs[j][2]
                THEN IF md = "generic"
                     THEN x[j][n][c][k - locs[j][1]] * window[k - locs[j][1]]
                     ELSE x[j][n][c][k - locs[j][1]]
                ELSE 0], 1, Len(locs))

(* the demucs branch adding 1.0 to the whole counter, not to the slice *)
AddCounter_NoSlice(md, locs, window, k) ==
    SumOver([j \in 1..Len(locs) |->
                IF md = "generic"
                THEN IF locs[j][1] <= k /\ k < locs[j][1] + locs[j][2]
                     THEN window[k - locs[j][1]] ELSE 0
                ELSE 1], 1, Len(locs))

(* lines 521-527, the contribution of one batch to counter at one sample *)
AddCounter(md, locs, window, k) ==
    SumOver([j \in 1..Len(locs) |->
                IF locs[j][1] <= k /\ k < locs[j][1] + locs[j][2]
                THEN IF md = "generic" THEN window[k - locs[j][1]] ELSE 1
                ELSE 0], 1, Len(locs))

(* estimated_sources[..., border:-border], line 546: the slice from b up to *)
(* b before the end; with b = 0 the stop index -0 is 0 and nothing is left *)
StripBorder(est, b) ==
    [n \in DOMAIN est |->
        [c \in DOMAIN est[n] |->
            LET stop == IF b = 0 THEN 0 ELSE Cardinality(DOMAIN est[n][c]) - b
            IN  [k \in 0..(stop - b - 1) |-> est[n][c][k + b]]]]

(* the guard without its border > 0 conjunct *)
IsPadded_NoBorderGuard(len, b) == len > 2 * b

(* lines 396 and 545: whether the whole buffer is padded and stripped *)
IsPadded(len, b) == len > 2 * b /\ b > 0

(* {k: v for k, v in zip(instruments, estimated_sources)}, line 554: pairs *)
(* up to the shorter length, a later duplicate key overwrites an earlier   *)
ZipDict(names, rows) ==
    LET m == Min(Len(names), Cardinality(DOMAIN rows))
        last(nm) == CHOOSE j \in 1..m :
                        /\ names[j] = nm
                        /\ \A l \in (j + 1)..m : names[l] # nm
    IN  [nm \in {names[j] : j \in 1..m} |-> rows[last(nm) - 1]]

(* the raw array returned for one instrument whatever the mode *)
ReturnForm_AnyMode(md, ninst) == IF ninst <= 1 THEN "array" ELSE "dict"

(* lines 556-559 *)
ReturnForm(md, ninst) == IF md = "demucs" /\ ninst <= 1 THEN "array" ELSE "dict"

(* the device allocations of one tensorrt batch, lines 457-475 and 494-495 *)
DeviceNames(mt) ==
    IF mt = "htdemucs"
    THEN {"d_input1", "d_input2", "d_output1", "d_output2"}
    ELSE {"d_input", "d_output"}

AllDeviceNames == DeviceNames("htdemucs") \cup DeviceNames("")

(* the flush at the buffer end left out *)
BatchReady_FullOnly(n, bs, pos, width) == n >= bs

(* line 432: the batch is dispatched when it is full or the end is reached *)
BatchReady(n, bs, pos, width) == n >= bs \/ pos >= width

(* One step of the chunk loop as the history records it.  ev: schedule     *)
(* (lines 419-429), dispatch (lines 433-512), accumulate (lines 521-527,   *)
(* once per batch location) or normalize (line 539); batch: the number of  *)
(* the batch, from 1; chunk: the number of the placement, from 1 (for a    *)
(* dispatch the batch's first); count: the chunks stacked for a dispatch;  *)
(* locs: batch_locations as the dispatch has it; pos: i after line 429;    *)
(* window: the window of lines 515-519.                                    *)
Event(ev, b, p, n, start, seg_len, pm, pos, locs, window) ==
    [ev |-> ev, batch |-> b, chunk |-> p, count |-> n, start |-> start,
     seg_len |-> seg_len, pad_mode |-> pm, pos |-> pos, locs |-> locs,
     window |-> window]

(* lines 419-429: one chunk cut, padded and appended to the batch *)
ScheduleEvent(b, p, start, chunk_len, pm, pos) ==
    Event("schedule", b, p, 1, start, chunk_len, pm, pos, <<>>, <<>>)

(* the batch's last chunk not yet accumulated when the loop goes on *)
BatchEvents_Deferred(b, first, locs, pos, window) ==
    <<Event("dispatch", b, first, Len(locs), locs[1][1], 0, "", pos, locs, <<>>)>>
    \o [j \in 1..(Len(locs) - 1) |->
            Event("accumulate", b, first + j - 1, 1, locs[j][1], locs[j][2],
                  "", pos, <<>>, window)]

(* lines 433-527: the stacked batch passed to the backend, then each of    *)
(* its locations added to result and counter                               *)
BatchEvents(b, first, locs, pos, window) ==
    <<Event("dispatch", b, first, Len(locs), locs[1][1], 0, "", pos, locs, <<>>)>>
    \o [j \in 1..Len(locs) |->
            Event("accumulate", b, first + j - 1, 1, locs[j][1], locs[j][2],
                  "", pos, <<>>, window)]

----------------------------------------------------------------------------
(* lines 363-408: everything before the chunk loop *)
Plan ==
    /\ pc = "start"
    /\ LET md == ModeOf(flags, model_type)
           cs == IF md = "demucs"
                 THEN config.samplerate * config.segment
                 ELSE config.audio_chunk_size
           ni == IF md = "demucs"
                 THEN Len(config.instruments)
                 ELSE Len(prefer_target_instrument(config))
           st == StepOf(cs, config.num_overlap)
           fs == IF md = "demucs" THEN 0 ELSE cs \div FadeDiv
           bd == IF md = "demucs" THEN 0 ELSE cs - st
           li == IF md = "demucs" THEN 0 ELSE Width(mix)
           padded == md = "generic" /\ IsPadded(li, bd)
           work == IF padded THEN ReflectPadBoth(mix, bd) ELSE mix
           zeros == [n \in 0..(ni - 1) |->
                        [c \in DOMAIN work |->
                            [k \in 0..(Width(work) - 1) |-> 0]]]
       IN  /\ mode' = md
           /\ chunk_size' = cs
           /\ num_instruments' = ni
           /\ step' = st
           /\ fade_size' = fs
           /\ border' = bd
           /\ length_init' = li
           /\ IF md = "generic" /\ fs = 0
              THEN \* window[-0:] = fadeout assigns an empty tensor to the
                   \* whole window: _getWindowingArray raises
                   /\ pc' = "raised"
                   /\ UNCHANGED <<mix, result, counter, windowing_array>>
              ELSE /\ pc' = "loop"
                   /\ windowing_array' = IF md = "generic"
                                         THEN getWindowingArray(cs, fs)
                                         ELSE windowing_array
                   /\ mix' = work
                   /\ result' = zeros
                   /\ counter' = zeros
    /\ UNCHANGED <<inputVars, i, batch_data, batch_locations, outVars,
                   placements, nbatch, device, ttaVars, loadVars, winVars,
                   events>>

(* lines 417-533: one iteration of the while loop, with the batch dispatch *)
(* and accumulation when the batch is full or the end is reached           *)
LoopIter ==
    /\ pc = "loop"
    /\ i < Width(mix)
    /\ step > 0 \/ Len(placements) < StallCap
    /\ LET part0 == SliceChunk(mix, i, chunk_size)
           chunk_len == Width(part0)
           pad_mode == PadMode(mode, chunk_len, chunk_size)
           part == PadRight(part0, chunk_size, pad_mode)
           bdata == Append(batch_data, part)
           locs == Append(batch_locations, <<i, chunk_len>>)
           ni == i + step
           scheduled == Append(events,
                               ScheduleEvent(nbatch + 1, Len(placements) + 1,
                                             i, chunk_len, pad_mode, ni))
       IN  /\ i' = ni
           /\ placements' = Append(placements, <<i, chunk_len>>)
           /\ IF BatchReady(Len(bdata), config.batch_size, ni, Width(mix))
              THEN LET x == [j \in 1..Len(bdata) |->
                                BackendRun(model, num_instruments, bdata[j])]
                       window == IF mode = "generic"
                                 THEN BatchWindow(chunk_size, fade_size, ni, step, Width(mix))
                                 ELSE <<>>
                   IN  /\ events' = scheduled
                                    \o BatchEvents(nbatch + 1,
                                                   Len(placements) + 2 - Len(locs),
                                                   locs, ni, window)
                       /\ result' = [n \in DOMAIN result |->
                                        [c \in DOMAIN result[n] |->
                                            [k \in DOMAIN result[n][c] |->
                                                result[n][c][k]
                                                + AddResult(mode, locs, x, window, n, c, k)]]]
                       /\ counter' = [n \in DOMAIN counter |->
                                        [c \in DOMAIN counter[n] |->
                                            [k \in DOMAIN counter[n][c] |->
                                                counter[n][c][k]
                                                + AddCounter(mode, locs, window, k)]]]
                       /\ batch_data' = <<>>
                       /\ batch_locations' = <<>>
                       /\ nbatch' = nbatch + 1
                       /\ device' = IF BackendPath(flags) = "tensorrt"
                                    THEN [d \in AllDeviceNames |->
                                            IF d \in DeviceNames(model_type)
                                            THEN nbatch + 1 ELSE device[d]]
                                    ELSE device
              ELSE /\ batch_data' = bdata
                   /\ batch_locations' = locs
                   /\ events' = scheduled
                   /\ UNCHANGED <<result, counter, nbatch, device>>
    /\ UNCHANGED <<inputVars, pc, planVars, mix, outVars, ttaVars, loadVars,
                   windowing_array, winVars>>

(* lines 535-559: normalise, strip the padding, name the rows, return.  The *)
(* device allocations are local names of demix: they die with the frame.   *)
Finalize ==
    /\ pc = "loop"
    /\ i >= Width(mix)
    /\ LET est == [n \in DOMAIN result |->
                      [c \in DOMAIN result[n] |->
                          [k \in DOMAIN result[n][c] |->
                              NanToNum(Divide(result[n][c][k], counter[n][c][k]))]]]
           out == IF mode = "generic" /\ IsPadded(length_init, border)
                  THEN StripBorder(est, border)
                  ELSE est
           names == IF mode = "demucs"
                    THEN config.instruments
                    ELSE prefer_target_instrument(config)
       IN  /\ normalized' = est
           /\ instruments' = names
           /\ estimated_sources' = out
           /\ ret' = IF ReturnForm(mode, num_instruments) = "array"
                     THEN [form |-> "array", value |-> out]
                     ELSE [form |-> "dict", value |-> ZipDict(names, out)]
    /\ pc' = "done"
    /\ device' = [d \in AllDeviceNames |-> 0]
    /\ events' = Append(events,
                        Event("normalize", nbatch, Len(placements), 0, 0, 0,
                              "", i, <<>>, <<>>))
    /\ UNCHANGED <<inputVars, planVars, mix, result, counter, i, batch_data,
                   batch_locations, placements, nbatch, ttaVars, loadVars,
                   windowing_array, winVars>>

----------------------------------------------------------------------------
(* apply_tta *)

(* arithmetic on the exact quotients demix returns *)
FracAdd(a, b) == Frac(a[1] * b[2] + b[1] * a[2], a[2] * b[2])
FracSub(a, b) == Frac(a[1] * b[2] - b[1] * a[2], a[2] * b[2])
FracDivInt(a, n) == Frac(a[1], a[2] * n)

(* the augmented result added as returned, not reversed back *)
AddReversed_NotReversed(orig, waveforms) ==
    [el \in DOMAIN orig |->
        IF el \in DOMAIN waveforms
        THEN [c \in DOMAIN orig[el] |->
                [k \in DOMAIN orig[el][c] |->
                    FracAdd(orig[el][c][k], waveforms[el][c][k])]]
        ELSE orig[el]]

(* a[::-1] on a (channels, samples) array: the channel axis reversed *)
ReverseChannels(a) ==
    [c \in DOMAIN a |-> a[(Channels(a) - 1) - c]]

(* -1.0 * mix.copy(), line 273 *)
Negate(a) == [c \in DOMAIN a |-> [k \in DOMAIN a[c] |-> -a[c][k]]]

(* waveforms_orig[el] += waveforms[el][::-1].copy(), line 280 *)
AddReversed(orig, waveforms) ==
    [el \in DOMAIN orig |->
        IF el \in DOMAIN waveforms
        THEN [c \in DOMAIN orig[el] |->
                [k \in DOMAIN orig[el][c] |->
                    FracAdd(orig[el][c][k], ReverseChannels(waveforms[el])[c][k])]]
        ELSE orig[el]]

(* waveforms_orig[el] -= waveforms[el], line 282 *)
Subtract(orig, waveforms) ==
    [el \in DOMAIN orig |->
        IF el \in DOMAIN waveforms
        THEN [c \in DOMAIN orig[el] |->
                [k \in DOMAIN orig[el][c] |->
                    FracSub(orig[el][c][k], waveforms[el][c][k])]]
        ELSE orig[el]]

(* waveforms_orig[el] /= len(track_proc_list) + 1, lines 285-286 *)
Average(orig, tracks) ==
    [el \in DOMAIN orig |->
        [c \in DOMAIN orig[el] |->
            [k \in DOMAIN orig[el][c] |->
                FracDivInt(orig[el][c][k], Len(tracks) + 1)]]]

(* demix(config, model, augmented_mix, device, model_type=model_type),     *)
(* line 277: a fresh call with the use_* flags at their defaults           *)
CallDemix(augmented_mix) ==
    /\ flags' = NativeFlags
    /\ mix_in' = augmented_mix
    /\ mix' = augmented_mix
    /\ pc' = "start"
    /\ mode' = "generic"
    /\ chunk_size' = 0 /\ num_instruments' = 0 /\ step' = 0
    /\ fade_size' = 0 /\ border' = 0 /\ length_init' = 0
    /\ result' = <<>> /\ counter' = <<>>
    /\ i' = 0
    /\ batch_data' = <<>> /\ batch_locations' = <<>>
    /\ normalized' = <<>> /\ estimated_sources' = <<>>
    /\ instruments' = <<>> /\ ret' = <<>>
    /\ placements' = <<>>
    /\ nbatch' = 0
    /\ windowing_array' = <<>>
    /\ events' = <<>>
    /\ UNCHANGED <<config, model_type, model, device, loadVars, winVars>>

(* lines 273-277: the caller passes demix's dictionary as waveforms_orig;   *)
(* apply_tta builds the augmentations and calls demix on the first         *)
TTABegin ==
    /\ call = "base"
    /\ pc = "done"
    /\ ret.form = "dict"
    /\ track_proc_list' = <<ReverseChannels(mix_in), Negate(mix_in)>>
    /\ waveforms_orig' = ret.value
    /\ base_out' = ret.value
    /\ call' = "aug0"
    /\ CallDemix(ReverseChannels(mix_in))
    /\ UNCHANGED aug_out

(* lines 278-280 for i = 0, then line 277 for i = 1 *)
TTANext ==
    /\ call = "aug0"
    /\ pc = "done"
    /\ waveforms_orig' = AddReversed(waveforms_orig, ret.value)
    /\ aug_out' = Append(aug_out, ret.value)
    /\ call' = "aug1"
    /\ CallDemix(track_proc_list[2])
    /\ UNCHANGED <<track_proc_list, base_out>>

(* lines 278-288 for i = 1: subtract, average, return *)
TTAFinish ==
    /\ call = "aug1"
    /\ pc = "done"
    /\ waveforms_orig' = Average(Subtract(waveforms_orig, ret.value), track_proc_list)
    /\ aug_out' = Append(aug_out, ret.value)
    /\ call' = "returned"
    /\ UNCHANGED <<inputVars, pc, planVars, mix, result, counter, i, batch_data,
                   batch_locations, outVars, placements, nbatch, device,
                   track_proc_list, base_out, loadVars, windowing_array,
                   winVars, events>>

----------------------------------------------------------------------------
(* load_not_compatible_weights.  A tensor is [shape, data]: shape a        *)
(* sequence of sizes, data a function on the index tuples within it.       *)

Indices(shape) ==
    {idx \in [1..Len(shape) -> 0..(MaxDim - 1)] :
        \A a \in 1..Len(shape) : idx[a] < shape[a]}

(* lines 596-601: the 'state' and then the 'state_dict' container unwrapped *)
Unwrap(ckpt) ==
    LET a == IF "state" \in DOMAIN ckpt THEN ckpt["state"] ELSE ckpt
    IN  IF "state_dict" \in DOMAIN a THEN a["state_dict"] ELSE a

(* the part outside the checkpoint tensor left at the parameter's own value *)
Reconcile_KeepInit(new, old) ==
    [shape |-> new.shape,
     data |-> [idx \in Indices(new.shape) |->
                  IF \A a \in 1..Len(old.shape) : idx[a] < old.shape[a]
                  THEN old.data[idx] ELSE new.data[idx]]]

(* lines 618-634: zeros of the per-axis maximum shape, the checkpoint      *)
(* tensor written at the low indices, the parameter's shape sliced out     *)
Reconcile(new, old) ==
    LET ln == Len(new.shape)
        max_shape == [a \in 1..ln |-> Max(new.shape[a], old.shape[a])]
        max_matrix == [idx \in Indices(max_shape) |->
                          IF \A a \in 1..ln : idx[a] < old.shape[a]
                          THEN old.data[idx] ELSE 0]
    IN  [shape |-> new.shape,
         data |-> [idx \in Indices(new.shape) |-> max_matrix[idx]]]

(* lines 603-637: the entry of new_model for one parameter name *)
LoadOne(new, old, el) ==
    IF el \in DOMAIN old
    THEN IF new[el].shape = old[el].shape
         THEN old[el]
         ELSE IF Len(new[el].shape) # Len(old[el].shape)
              THEN new[el]
              ELSE Reconcile(new[el], old[el])
    ELSE new[el]

(* lines 594-640, the whole function *)
LoadNotCompatibleWeights ==
    /\ lpc = "start"
    /\ LET old == Unwrap(old_model)
           filled == [el \in DOMAIN new_model |-> LoadOne(new_model, old, el)]
       IN  loaded' = filled
    /\ lpc' = "done"
    /\ UNCHANGED <<inputVars, pc, planVars, mix, result, counter, i, batch_data,
                   batch_locations, outVars, placements, nbatch, device,
                   ttaVars, old_model, new_model, source_params,
                   windowing_array, winVars, events>>

----------------------------------------------------------------------------
(* _getWindowingArray called on its own, lines 317-323.  With fade_size 0  *)
(* the slice window[-0:] is the whole window and the empty fadeout cannot  *)
(* be assigned to it; with fade_size > window_size the slice is again the  *)
(* whole window, shorter than fadeout: both assignments raise.             *)
GetWindowingArray ==
    /\ wpc = "start"
    /\ IF arg_fade_size = 0 \/ arg_fade_size > arg_window_size
       THEN /\ wpc' = "raised"
            /\ UNCHANGED windowing_array
       ELSE /\ wpc' = "done"
            /\ windowing_array' = getWindowingArray(arg_window_size, arg_fade_size)
    /\ UNCHANGED <<inputVars, pc, planVars, mix, result, counter, i, batch_data,
                   batch_locations, outVars, placements, nbatch, device,
                   ttaVars, loadVars, arg_window_size, arg_fade_size, events>>

----------------------------------------------------------------------------
(* Inputs *)
(* the sample at channel c, index k of the mixture numbered seed *)
MixValue(seed, c, k) == (seed * (k + 1) + 3 * c) * (IF k % 3 = 2 THEN -1 ELSE 1)

MakeMix(seed, nc, len) ==
    [c \in 0..(nc - 1) |-> [k \in 0..(len - 1) |-> MixValue(seed, c, k)]]

(* The state on entry to demix.  The chunk-size field the selected mode    *)
(* does not read is held at its least value: it has no effect on the run.  *)
InitDemix(flagSet, types, kinds, lens, chans, seeds, chunks, rates, segs, overlaps, batches, instrLists, targets) ==
    /\ flags \in flagSet
    /\ model_type \in types
    /\ model \in kinds
    /\ \E len \in lens, nc \in chans, seed \in seeds :
           mix_in = MakeMix(seed, nc, len)
    /\ \E cs \in chunks, sr \in rates, sg \in segs, ov \in overlaps,
          bs \in batches, il \in instrLists, tg \in targets :
           /\ IF ModeOf(flags, model_type) = "demucs"
              THEN \A c2 \in chunks : cs <= c2
              ELSE \A r2 \in rates, s2 \in segs : sr <= r2 /\ sg <= s2
           /\ config = [audio_chunk_size |-> cs, samplerate |-> sr,
                        segment |-> sg, num_overlap |-> ov, batch_size |-> bs,
                        instruments |-> il, target_instrument |-> tg]
    /\ pc = "start"
    /\ mode = "generic"
    /\ chunk_size = 0 /\ num_instruments = 0 /\ step = 0
    /\ fade_size = 0 /\ border = 0 /\ length_init = 0
    /\ mix = mix_in
    /\ result = <<>> /\ counter = <<>>
    /\ i = 0
    /\ batch_data = <<>> /\ batch_locations = <<>>
    /\ normalized = <<>> /\ estimated_sources = <<>>
    /\ instruments = <<>> /\ ret = <<>>
    /\ placements = <<>>
    /\ nbatch = 0
    /\ device = [d \in AllDeviceNames |-> 0]
    /\ call = "base"
    /\ track_proc_list = <<>>
    /\ waveforms_orig = <<>>
    /\ base_out = <<>>
    /\ aug_out = <<>>
    /\ lpc = "idle"
    /\ old_model = <<>> /\ new_model = <<>> /\ loaded = <<>>
    /\ source_params = <<>>
    /\ windowing_array = <<>>
    /\ arg_window_size = 0 /\ arg_fade_size = 0 /\ wpc = "idle"
    /\ events = <<>>

(* htdemucs on the native path (generic mode) and on the tensorrt path      *)
(* (demucs mode), over the widest range of lengths and chunk sizes         *)
Init ==
    InitDemix({NativeFlags, TensorrtFlags}, {"htdemucs"},
              {"identity", "ramp"}, 1..MaxLen, {1}, {1},
              (FadeDiv - 1)..MaxChunk, 1..MaxRate, 1..MaxSegment,
              1..MaxOverlap, 1..MaxBatch, {<<"vocals">>}, {""})

Next == Plan \/ LoopIter \/ Finalize

Spec == Init /\ [][Next]_vars

(* demix runs on one thread that executes its next statement whenever it   *)
(* has one: a step that stays possible is taken                            *)
InitLive ==
    InitDemix({NativeFlags, TensorrtFlags}, {"htdemucs"}, {"identity"},
              1..MaxLen, {1}, {1}, FadeDiv..(FadeDiv + 2), 1..MaxRate, {1},
              1..MaxOverlap, {1, MaxBatch}, {<<"vocals">>}, {""})

SpecLive == InitLive /\ [][Next]_vars /\ WF_vars(Next)

(* a caller that runs demix on the native path and then apply_tta *)
InitTTA ==
    InitDemix({NativeFlags}, {"mdx23c"},
              {"identity", "gain", "mirror", "ramp", "left"},
              (MaxLen - 3)..MaxLen, 1..MaxChannels, {1},
              {FadeDiv, MaxChunk}, {1}, {1},
              1..MaxOverlap, 1..MaxBatch, {<<"vocals", "other">>}, {""})

NextTTA == Plan \/ LoopIter \/ Finalize \/ TTABegin \/ TTANext \/ TTAFinish

SpecTTA == InitTTA /\ [][NextTTA]_vars

(* every flag combination and model type, with and without an override *)
InitNames ==
    InitDemix(FlagSets, {"htdemucs", "bs_roformer"}, {"gain"},
              1..3, {1}, {1}, {FadeDiv}, {1}, 1..MaxSegment,
              {1}, {1, MaxBatch},
              {<<"vocals">>, <<"vocals", "other">>, <<"drums", "bass", "other">>},
              {"", "vocals", "other"})

SpecNames == InitNames /\ [][Next]_vars

(* Inputs of load_not_compatible_weights *)
Shapes == {<<d>> : d \in 1..MaxDim} \cup {<<r, c>> : r \in 1..MaxDim, c \in 1..MaxDim}

(* checkpoint values are positive, initial parameter values negative *)
SourceTensor(shape) ==
    [shape |-> shape,
     data |-> [idx \in Indices(shape) |->
                  1 + idx[1] + (IF Len(shape) > 1 THEN 10 * idx[2] ELSE 0)]]

TargetTensor(shape) ==
    [shape |-> shape,
     data |-> [idx \in Indices(shape) |->
                  0 - (1 + idx[1] + (IF Len(shape) > 1 THEN 10 * idx[2] ELSE 0))]]

(* the checkpoint file's containers (lines 596-601) *)
Wrap(kind, params) ==
    CASE kind = "plain" -> params
      [] kind = "state" -> [key \in {"state"} |-> params]
      [] kind = "state_dict" -> [key \in {"state_dict", "epoch"} |->
                                   IF key = "epoch" THEN 7 ELSE params]

InitLoad ==
    /\ lpc = "start"
    /\ \E ws \in Shapes, wt \in Shapes, names \in {{"weight"}, {"weight", "bias"}, {"bias"}},
          kind \in {"plain", "state", "state_dict"} :
           /\ source_params = [el \in names |->
                                  IF el = "weight" THEN SourceTensor(ws)
                                  ELSE SourceTensor(<<2>>)]
           /\ old_model = Wrap(kind, source_params)
           /\ new_model = [el \in {"weight", "bias"} |->
                              IF el = "weight" THEN TargetTensor(wt)
                              ELSE TargetTensor(<<2>>)]
    /\ loaded = new_model
    /\ flags = NativeFlags
    /\ model_type = "" /\ model = "" /\ config = <<>>
    /\ mix_in = <<>> /\ mix = <<>>
    /\ pc = "idle"
    /\ mode = "generic"
    /\ chunk_size = 0 /\ num_instruments = 0 /\ step = 0
    /\ fade_size = 0 /\ border = 0 /\ length_init = 0
    /\ result = <<>> /\ counter = <<>>
    /\ i = 0
    /\ batch_data = <<>> /\ batch_locations = <<>>
    /\ normalized = <<>> /\ estimated_sources = <<>>
    /\ instruments = <<>> /\ ret = <<>>
    /\ placements = <<>>
    /\ nbatch = 0
    /\ device = [d \in AllDeviceNames |-> 0]
    /\ call = "idle"
    /\ track_proc_list = <<>>
    /\ waveforms_orig = <<>>
    /\ base_out = <<>>
    /\ aug_out = <<>>
    /\ windowing_array = <<>>
    /\ arg_window_size = 0 /\ arg_fade_size = 0 /\ wpc = "idle"
    /\ events = <<>>

NextLoad == LoadNotCompatibleWeights

SpecLoad == InitLoad /\ [][NextLoad]_vars

(* Inputs of _getWindowingArray: every window size and every fade size up  *)
(* to one past it                                                          *)
InitWindow ==
    /\ wpc = "start"
    /\ arg_window_size \in 1..MaxWindow
    /\ arg_fade_size \in 0..(arg_window_size + 1)
    /\ windowing_array = <<>>
    /\ events = <<>>
    /\ lpc = "idle"
    /\ old_model = <<>> /\ new_model = <<>> /\ loaded = <<>>
    /\ source_params = <<>>
    /\ flags = NativeFlags
    /\ model_type = "" /\ model = "" /\ config = <<>>
    /\ mix_in = <<>> /\ mix = <<>>
    /\ pc = "idle"
    /\ mode = "generic"
    /\ chunk_size = 0 /\ num_instruments = 0 /\ step = 0
    /\ fade_size = 0 /\ border = 0 /\ length_init = 0
    /\ result = <<>> /\ counter = <<>>
    /\ i = 0
    /\ batch_data = <<>> /\ batch_locations = <<>>
    /\ normalized = <<>> /\ estimated_sources = <<>>
    /\ instruments = <<>> /\ ret = <<>>
    /\ placements = <<>>
    /\ nbatch = 0
    /\ device = [d \in AllDeviceNames |-> 0]
    /\ call = "idle"
    /\ track_proc_list = <<>>
    /\ waveforms_orig = <<>>
    /\ base_out = <<>>
    /\ aug_out = <<>>

NextWindow == GetWindowingArray

SpecWindow == InitWindow /\ [][NextWindow]_vars

----------------------------------------------------------------------------
(* Notions shared by the properties *)
BufferWidth == Width(mix)

(* sample k lies in the valid range of a recorded placement *)
Covered(k) ==
    \E p \in 1..Len(placements) :
        placements[p][1] <= k /\ k < placements[p][1] + placements[p][2]

(* the while loop of line 417 has been left *)
LoopOver == (pc = "loop" /\ i >= BufferWidth) \/ pc = "done"

(* the loop is running and its next placement is the one it recorded last: *)
(* it will record nothing else                                             *)
Stalled ==
    /\ pc = "loop" /\ i < BufferWidth
    /\ placements # <<>>
    /\ placements[Len(placements)][1] = i

PlacementsInRange ==
    \A p \in 1..Len(placements) :
        /\ placements[p][1] >= 0
        /\ placements[p][2] <= chunk_size
        /\ placements[p][1] + placements[p][2] <= BufferWidth

AllCovered == \A k \in 0..(BufferWidth - 1) : Covered(k)

(* row n (from 0) of what demix returned, in either return form *)
ReturnedRow(n) ==
    IF ret.form = "array" THEN ret.value[n] ELSE ret.value[instruments[n + 1]]

----------------------------------------------------------------------------
(* C1, as stated: for every L, C, O >= 1 the recorded placements have      *)
(* validLength <= C, none reaches past the buffer, and once the loop has   *)
(* recorded all it will record (it has ended, or it repeats its last       *)
(* placement) every sample below L lies in some range.                     *)
C1_CoverageAnyOverlap ==
    pc \in {"loop", "done"} =>
        /\ PlacementsInRange
        /\ (LoopOver \/ Stalled) => AllCovered

(* C1, amended: the same for every overlap factor O <= C, that is for      *)
(* every step = C div O >= 1.                                              *)
C1_Coverage ==
    (pc \in {"loop", "done"} /\ config.num_overlap <= chunk_size) =>
        /\ PlacementsInRange
        /\ (LoopOver \/ Stalled) => AllCovered

(* C1 witness: a finished loop with several placements, the last clipped   *)
C1_Witness ==
    /\ pc = "done"
    /\ Len(placements) >= 3
    /\ placements[Len(placements)][2] < chunk_size
    /\ config.num_overlap >= 2

(* C2: in generic mode, once the chunk loop has finished, counter > 0 at   *)
(* every sample covered by at least one chunk.                             *)
C2_PositiveWeight ==
    (LoopOver /\ mode = "generic") =>
        \A n \in DOMAIN counter : \A c \in DOMAIN counter[n] :
            \A k \in 0..(BufferWidth - 1) :
                Covered(k) => counter[n][c][k] > 0

(* C3: identity backend, one instrument, chunk size < buffer length and    *)
(* overlap >= 2: the generic-mode result equals the input at every sample. *)
C3_IdentityReconstruction ==
    (/\ pc = "done" /\ mode = "generic" /\ model = "identity"
     /\ num_instruments = 1
     /\ chunk_size < Width(mix_in)
     /\ config.num_overlap >= 2) =>
        \A c \in DOMAIN mix_in :
            /\ DOMAIN ReturnedRow(0)[c] = 0..(Width(mix_in) - 1)
            /\ \A k \in 0..(Width(mix_in) - 1) :
                   ReturnedRow(0)[c][k] = <<mix_in[c][k], 1>>

(* C4: in generic mode the working buffer is the input reflect-padded by   *)
(* C - step at head and tail exactly when L > 2*(C - step), else the input *)
(* itself; every returned row has L samples, sample k being the normalised *)
(* working-buffer sample k + (C - step) when padded and k otherwise.       *)
C4_PaddingAndStrip ==
    (mode = "generic" /\ pc \in {"loop", "done"}) =>
        LET b == chunk_size - step
            len == Width(mix_in)
            off == IF len > 2 * b THEN b ELSE 0
        IN  /\ len > 2 * b =>
                /\ BufferWidth = len + 2 * b
                /\ \A c \in DOMAIN mix_in :
                      /\ \A k \in 0..(len - 1) : mix[c][k + b] = mix_in[c][k]
                      /\ \A j \in 0..(b - 1) :
                            /\ mix[c][j] = mix_in[c][b - j]
                            /\ mix[c][b + len + j] = mix_in[c][(len - 2) - j]
            /\ len <= 2 * b => mix = mix_in
            /\ pc = "done" =>
                \A n \in DOMAIN result : \A c \in DOMAIN mix_in :
                    /\ DOMAIN ReturnedRow(n)[c] = 0..(len - 1)
                    /\ \A k \in 0..(len - 1) :
                          ReturnedRow(n)[c][k] =
                              NanToNum(Divide(result[n][c][k + off],
                                              counter[n][c][k + off]))

(* C4 witness: a finished generic run whose buffer was padded *)
C4_Witness ==
    /\ pc = "done" /\ mode = "generic"
    /\ border > 0
    /\ Width(mix_in) > 2 * border
    /\ BufferWidth = Width(mix_in) + 2 * border

(* the start of the one placement that covers sample k when step = C *)
CoveringStart(k) ==
    placements[CHOOSE p \in 1..Len(placements) :
        placements[p][1] <= k /\ k < placements[p][1] + placements[p][2]][1]

(* C5: in demucs mode with overlap factor 1, after the loop counter is 1   *)
(* at every sample and the returned value at each sample is the backend's  *)
(* raw output for the one chunk that covers it.                            *)
C5_NonOverlapping ==
    (mode = "demucs" /\ config.num_overlap = 1 /\ LoopOver) =>
        /\ \A n \in DOMAIN counter : \A c \in DOMAIN counter[n] :
              \A k \in 0..(BufferWidth - 1) : counter[n][c][k] = 1
        /\ pc = "done" =>
              \A n \in DOMAIN result : \A c \in DOMAIN mix :
                  \A k \in 0..(BufferWidth - 1) :
                      ReturnedRow(n)[c][k] =
                          <<BackendRun(model, num_instruments,
                                PadRight(SliceChunk(mix, CoveringStart(k), chunk_size),
                                         chunk_size, "constant"))
                                [n][c][k - CoveringStart(k)], 1>>

(* C5 witness: a finished demucs run of several chunks with overlap 1 *)
C5_Witness ==
    /\ pc = "done" /\ mode = "demucs"
    /\ config.num_overlap = 1
    /\ Len(placements) >= 3
    /\ model = "ramp"

(* C6: on the tensorrt path no device buffer allocated for a batch is held *)
(* once that batch's step has ended: none between batches, none on return. *)
C6_DeviceReleasedPerBatch ==
    pc \in {"loop", "done"} => \A d \in AllDeviceNames : device[d] = 0

(* the backends that commute with channel reversal and with negation *)
CommutingBackends == {"identity", "gain", "mirror"}

(* C7: apply_tta returns, per instrument, (base + channel-reversed-back    *)
(* demix of the channel-reversed mixture - demix of the negated mixture)   *)
(* / 3, and for a backend that commutes with channel reversal and with     *)
(* negation this is the base output.                                       *)
C7_TTAAverage ==
    call = "returned" =>
        /\ DOMAIN waveforms_orig = DOMAIN base_out
        /\ \A el \in DOMAIN base_out : \A c \in DOMAIN base_out[el] :
              \A k \in DOMAIN base_out[el][c] :
                  waveforms_orig[el][c][k] =
                      FracDivInt(
                          FracSub(FracAdd(base_out[el][c][k],
                                          aug_out[1][el][(Channels(base_out[el]) - 1) - c][k]),
                                  aug_out[2][el][c][k]),
                          3)
        /\ model \in CommutingBackends => waveforms_orig = base_out

(* C7 witness: apply_tta has returned for a stereo mixture of several      *)
(* chunks and a commuting backend whose channels differ                    *)
C7_Witness ==
    /\ call = "returned"
    /\ model = "gain"
    /\ Channels(mix_in) = 2
    /\ Len(placements) >= 3
    /\ \E el \in DOMAIN base_out : \E k \in DOMAIN base_out[el][0] :
          base_out[el][0][k] # base_out[el][1][k]

(* C8: for a parameter name in both model and checkpoint whose shapes      *)
(* differ and whose ranks are equal, the loaded tensor has the target      *)
(* shape and holds, at each index, the source value where the index lies   *)
(* inside the source shape on every axis and 0 elsewhere.                  *)
C8_Reconciled ==
    lpc = "done" =>
        \A el \in DOMAIN new_model \cap DOMAIN source_params :
            LET src == source_params[el]
                target == new_model[el].shape
            IN  (Len(src.shape) = Len(target) /\ src.shape # target) =>
                    /\ loaded[el].shape = target
                    /\ DOMAIN loaded[el].data = Indices(target)
                    /\ \A idx \in Indices(target) :
                          loaded[el].data[idx] =
                              IF \A a \in 1..Len(target) : idx[a] < src.shape[a]
                              THEN src.data[idx] ELSE 0

(* C8 witness: a (2,3) checkpoint tensor loaded into a wider and shorter   *)
(* parameter, so that one axis is zero-extended and the other truncated    *)
C8_Witness ==
    /\ lpc = "done"
    /\ "weight" \in DOMAIN source_params
    /\ source_params["weight"].shape = <<2, 3>>
    /\ new_model["weight"].shape = <<3, 2>>
    /\ loaded["weight"].data[<<2, 1>>] = 0
    /\ loaded["weight"].data[<<1, 1>>] = source_params["weight"].data[<<1, 1>>]

C10_OverrideAnyMode ==
    (pc \in {"loop", "done"} /\ config.target_instrument # "") =>
        /\ num_instruments = 1
        /\ Cardinality(DOMAIN result) = 1
        /\ pc = "done" => instruments = <<config.target_instrument>>

(* C10, amended: the same in generic mode; in demucs mode the list is the  *)
(* full instrument list, override or not.                                  *)
C10_Override ==
    /\ (pc \in {"loop", "done"} /\ config.target_instrument # ""
        /\ mode = "generic") =>
            /\ num_instruments = 1
            /\ Cardinality(DOMAIN result) = 1
            /\ pc = "done" => instruments = <<config.target_instrument>>
    /\ (pc \in {"loop", "done"} /\ mode = "demucs") =>
            /\ num_instruments = Len(config.instruments)
            /\ Cardinality(DOMAIN result) = Len(config.instruments)
            /\ pc = "done" => instruments = config.instruments

(* C10 witness: an override in generic mode, off the native path, over a   *)
(* longer instrument list that does not hold the override's name           *)
C10_Witness ==
    /\ pc = "done"
    /\ mode = "generic"
    /\ flags.use_onnx
    /\ config.target_instrument = "vocals"
    /\ Len(config.instruments) = 3
    /\ DOMAIN ret.value = {"vocals"}

(* the value of the returned window at index k *)
WindowValue(k) == Frac(windowing_array[k], WOne(arg_fade_size))

(* the envelope of C11: size values in [0,1], a linear rise from 0 to 1    *)
(* over [0, fade), 1 over [fade, size - fade), a linear fall from 1 to 0   *)
(* over [size - fade, size)                                                *)
WindowShape ==
    LET size == arg_window_size
        fade == arg_fade_size
        one == WOne(fade)
        w == windowing_array
    IN  /\ DOMAIN w = 0..(size - 1)
        /\ \A k \in 0..(size - 1) : 0 <= w[k] /\ w[k] <= one
        /\ w[0] = 0 /\ w[fade - 1] = one
        /\ \A k \in 0..(fade - 1) : w[k] * (fade - 1) = k * one
        /\ \A k \in fade..(size - fade - 1) : w[k] = one
        /\ w[size - fade] = one /\ w[size - 1] = 0
        /\ \A k \in 0..(fade - 1) :
              w[size - fade + k] * (fade - 1) = ((fade - 1) - k) * one

(* C11, as stated: for every size and fadeSize with 0 < fadeSize <= size/2 *)
(* the returned window has the envelope's shape, and for (10, 3) it is     *)
(* [0, 0.5, 1, 1, 1, 1, 1, 1, 0.5, 0].                                     *)
C11_WindowShapeAnyFade ==
    (wpc = "done" /\ 0 < arg_fade_size /\ 2 * arg_fade_size <= arg_window_size) =>
        /\ WindowShape
        /\ (arg_window_size = 10 /\ arg_fade_size = 3) =>
              [k \in 0..9 |-> WindowValue(k)] =
                  [k \in 0..9 |-> IF k \in {0, 9} THEN <<0, 1>>
                                  ELSE IF k \in {1, 8} THEN <<1, 2>>
                                  ELSE <<1, 1>>]

(* C11, amended: the same for 2 <= fadeSize <= size/2; for fadeSize = 1    *)
(* the one-point ramps are 0 at index 0 and 1 at index size - 1, so the    *)
(* window is 0 at index 0 and 1 everywhere else.                           *)
C11_WindowShape ==
    /\ (wpc = "done" /\ 2 <= arg_fade_size /\ 2 * arg_fade_size <= arg_window_size) =>
          /\ WindowShape
          /\ (arg_window_size = 10 /\ arg_fade_size = 3) =>
                [k \in 0..9 |-> WindowValue(k)] =
                    [k \in 0..9 |-> IF k \in {0, 9} THEN <<0, 1>>
                                    ELSE IF k \in {1, 8} THEN <<1, 2>>
                                    ELSE <<1, 1>>]
    /\ (wpc = "done" /\ arg_fade_size = 1 /\ 2 <= arg_window_size) =>
          /\ DOMAIN windowing_array = 0..(arg_window_size - 1)
          /\ \A k \in 0..(arg_window_size - 1) :
                WindowValue(k) = IF k = 0 THEN <<0, 1>> ELSE <<1, 1>>

(* C11 witness: the window of the example has been returned *)
C11_Witness ==
    /\ wpc = "done"
    /\ arg_window_size = 10 /\ arg_fade_size = 3
    /\ WindowValue(1) = <<1, 2>>
    /\ WindowValue(8) = <<1, 2>>

(* the number of leading samples line 546 strips from the buffer *)
StripOffset == IF mode = "generic" /\ IsPadded(length_init, border) THEN border ELSE 0

(* C12: when demix normalizes, at every sample where counter is 0 result   *)
(* is 0 too and the quotient is replaced by 0, which is the value returned *)
(* for that sample if it is returned; no output value is infinite or NaN.  *)
C12_ZeroWeight ==
    pc = "done" =>
        \A n \in DOMAIN counter : \A c \in DOMAIN counter[n] :
            \A k \in DOMAIN counter[n][c] :
                /\ normalized[n][c][k][2] # 0
                /\ counter[n][c][k] = 0 =>
                      /\ result[n][c][k] = 0
                      /\ normalized[n][c][k] = <<0, 1>>
                      /\ (k - StripOffset) \in DOMAIN ReturnedRow(n)[c] =>
                            ReturnedRow(n)[c][k - StripOffset] = <<0, 1>>

(* C12 witness: a returned sample whose weight was 0 at normalization,     *)
(* next to one whose weight and value were not                             *)
C12_Witness ==
    /\ pc = "done"
    /\ counter[0][0][0] = 0
    /\ StripOffset = 0
    /\ ReturnedRow(0)[0][0] = <<0, 1>>
    /\ \E k \in DOMAIN counter[0][0] :
          counter[0][0][k] > 0 /\ ReturnedRow(0)[0][k] # <<0, 1>>

(* the steps of the history of one kind *)
EventsOf(kind) == {e \in 1..Len(events) : events[e].ev = kind}

(* C13: in generic mode every chunk is accumulated with a window whose     *)
(* leading fade is 1 if the chunk starts at 0 and the plain fade-in if it  *)
(* does not, and whose trailing fade is 1 if the chunk's range reaches the *)
(* end of the padded buffer and the plain fade-out if it does not, at      *)
(* every window index that is accumulated (below the chunk's length).      *)
C13_EdgeCorrection ==
    (mode = "generic" /\ pc \in {"loop", "done"}) =>
        \A e \in EventsOf("accumulate") :
            LET w == events[e].window
                first == events[e].start = 0
                last == events[e].start + events[e].seg_len = BufferWidth
            IN  \A k \in 0..(events[e].seg_len - 1) :
                    /\ k < fade_size =>
                          w[k] = IF first THEN WOne(fade_size) ELSE windowing_array[k]
                    /\ (k >= chunk_size - fade_size /\ k >= fade_size) =>
                          w[k] = IF last THEN WOne(fade_size) ELSE windowing_array[k]

(* the weight the accumulation recorded as step e added at sample k *)
WeightAt(e, k) ==
    IF /\ events[e].ev = "accumulate"
       /\ events[e].start <= k /\ k < events[e].start + events[e].seg_len
    THEN IF mode = "generic" THEN events[e].window[k - events[e].start] ELSE 1
    ELSE 0

(* the chunks dispatched before step d *)
DispatchedBefore(d) ==
    SumOver([e \in 1..Len(events) |->
                IF e < d /\ events[e].ev = "dispatch" THEN events[e].count ELSE 0],
            1, Len(events))

(* C14: every dispatched batch holds between 1 and B chunks, which are the *)
(* next placements in their order; a batch of fewer than B chunks is       *)
(* dispatched only with the scheduler at or past the buffer end; when the  *)
(* loop has ended nothing is pending, every placement lies in exactly one  *)
(* batch and was accumulated exactly once, and counter holds exactly the   *)
(* weights of those accumulations.                                         *)
C14_Batching ==
    pc \in {"loop", "done"} =>
        /\ \A d \in EventsOf("dispatch") :
              /\ 1 <= events[d].count /\ events[d].count <= config.batch_size
              /\ events[d].count = Len(events[d].locs)
              /\ events[d].chunk = DispatchedBefore(d) + 1
              /\ events[d].locs = SubSeq(placements, events[d].chunk,
                                         events[d].chunk + events[d].count - 1)
              /\ events[d].count < config.batch_size => events[d].pos >= BufferWidth
        /\ Len(batch_data) = Len(batch_locations)
        /\ Len(batch_data) < config.batch_size
        /\ LoopOver =>
              /\ batch_data = <<>> /\ batch_locations = <<>>
              /\ \A p \in 1..Len(placements) :
                    /\ Cardinality({d \in EventsOf("dispatch") :
                                       /\ events[d].chunk <= p
                                       /\ p < events[d].chunk + events[d].count}) = 1
                    /\ Cardinality({a \in EventsOf("accumulate") :
                                       events[a].chunk = p}) = 1
                    /\ \A a \in EventsOf("accumulate") :
                          events[a].chunk = p =>
                              <<events[a].start, events[a].seg_len>> = placements[p]
              /\ \A n \in DOMAIN counter : \A c \in DOMAIN counter[n] :
                    \A k \in DOMAIN counter[n][c] :
                        counter[n][c][k] =
                            SumOver([e \in 1..Len(events) |-> WeightAt(e, k)],
                                    1, Len(events))

(* C14 witness: a finished loop of batch size 3 with a full batch and then *)
(* a smaller one flushed at the buffer end                                 *)
C14_Witness ==
    /\ pc = "done"
    /\ config.batch_size = 3
    /\ nbatch >= 2
    /\ \E d \in EventsOf("dispatch") : events[d].count = 3
    /\ \E d \in EventsOf("dispatch") : events[d].count = 2

(* C15: the history of the chunk loop is strictly sequential.  Each        *)
(* dispatch is followed at once by the accumulation of each of its chunks, *)
(* in order; every chunk of the batch was scheduled before the dispatch    *)
(* and every later chunk is scheduled after the batch's last accumulation; *)
(* between iterations counter holds exactly the accumulations recorded so  *)
(* far; normalization is the last step and follows the accumulation of     *)
(* every scheduled chunk.                                                  *)
C15_Sequential ==
    pc \in {"loop", "done"} =>
        /\ \A d \in EventsOf("dispatch") :
              LET b == events[d].batch
                  n == events[d].count
                  first == events[d].chunk
              IN  /\ d + n <= Len(events)
                  /\ \A j \in 1..n :
                        /\ events[d + j].ev = "accumulate"
                        /\ events[d + j].batch = b
                        /\ events[d + j].chunk = first + j - 1
                  /\ \A s \in EventsOf("schedule") :
                        /\ events[s].chunk < first + n => s < d
                        /\ events[s].chunk >= first + n => s > d + n
                        /\ events[s].batch = b <=>
                              (first <= events[s].chunk /\ events[s].chunk < first + n)
        /\ \A a \in EventsOf("accumulate") :
              \E d \in EventsOf("dispatch") :
                  /\ d < a /\ a <= d + events[d].count
                  /\ events[d].batch = events[a].batch
        /\ \A s1 \in EventsOf("schedule"), s2 \in EventsOf("schedule") :
              s1 < s2 => /\ events[s1].chunk < events[s2].chunk
                         /\ events[s1].batch <= events[s2].batch
        /\ \A n \in DOMAIN counter : \A c \in DOMAIN counter[n] :
              \A k \in DOMAIN counter[n][c] :
                  counter[n][c][k] =
                      SumOver([e \in 1..Len(events) |-> WeightAt(e, k)],
                              1, Len(events))
        /\ \A z \in EventsOf("normalize") :
              /\ z = Len(events)
              /\ pc = "done"
              /\ \A s \in EventsOf("schedule") :
                    \E a \in EventsOf("accumulate") :
                        a < z /\ events[a].chunk = events[s].chunk
        /\ pc = "done" => EventsOf("normalize") # {}

(* C15 witness: a run of three or more batches of two or more chunks has   *)
(* been normalized                                                         *)
C15_Witness ==
    /\ pc = "done"
    /\ config.batch_size >= 2
    /\ nbatch >= 3
    /\ events[Len(events)].ev = "normalize"
    /\ mode = "generic"

(* every chunk waiting in batch_data is its valid content followed, up to  *)
(* the chunk size, by that content mirrored (reflect) or by zeros          *)
PendingPadded(reflectModes) ==
    \A j \in 1..Len(batch_data) :
        LET start == batch_locations[j][1]
            n == batch_locations[j][2]
            reflect == mode \in reflectModes /\ 2 * n > chunk_size
        IN  \A c \in DOMAIN mix :
                /\ DOMAIN batch_data[j][c] = 0..(chunk_size - 1)
                /\ \A k \in 0..(chunk_size - 1) :
                      batch_data[j][c][k] =
                          IF k < n THEN mix[c][start + k]
                          ELSE IF reflect THEN mix[c][start + (n - 2) - (k - n)]
                          ELSE 0

(* the pad modes of the chunks scheduled so far follow the half-chunk rule *)
(* in the modes given and are zero-padding in the others                   *)
PadRule(reflectModes) ==
    \A s \in EventsOf("schedule") :
        LET n == events[s].seg_len
        IN  n < chunk_size =>
                /\ events[s].pad_mode = "reflect" <=>
                      (mode \in reflectModes /\ 2 * n > chunk_size)
                /\ events[s].pad_mode # "reflect" => events[s].pad_mode = "constant"
                /\ events[s].pad_mode = "reflect" => chunk_size - n < n

(* C16, as stated: in every mode a chunk shorter than the chunk size is    *)
(* reflect-padded when its valid length exceeds half the chunk size and    *)
(* zero-padded otherwise, the reflect pad being smaller than the valid     *)
(* length.                                                                 *)
C16_ChunkPadAnyMode ==
    pc \in {"loop", "done"} =>
        PadRule({"generic", "demucs"}) /\ PendingPadded({"generic", "demucs"})

(* C16, amended: so in generic mode; in demucs mode every short chunk is   *)
(* zero-padded.                                                            *)
C16_ChunkPad ==
    pc \in {"loop", "done"} => PadRule({"generic"}) /\ PendingPadded({"generic"})

(* C16 witness: generic mode, one short chunk reflect-padded and waiting   *)
(* in the batch after another was zero-padded                              *)
C16_Witness ==
    /\ pc = "loop"
    /\ mode = "generic"
    /\ \E s \in EventsOf("schedule") :
          events[s].seg_len < chunk_size /\ events[s].pad_mode = "constant"
    /\ \E j \in 1..Len(batch_data) :
          /\ batch_locations[j][2] < chunk_size
          /\ 2 * batch_locations[j][2] > chunk_size

(* the chunks scheduled so far start at 0, C div O, 2*(C div O), ..., each *)
(* after the one before it, and a loop that has ended scheduled            *)
(* ceil(L / (C div O)) of them                                             *)
SchedulePlan ==
    LET st == chunk_size \div config.num_overlap
    IN  /\ \A p \in 1..Len(placements) : placements[p][1] = (p - 1) * st
        /\ \A p \in 1..(Len(placements) - 1) :
              placements[p][1] < placements[p + 1][1]
        /\ LoopOver => Len(placements) = (BufferWidth + st - 1) \div st

(* C17, as stated: for every L, C, O, B >= 1 the scheduling loop, once     *)
(* entered, ends, and its chunks are an ordered sequence with starts 0,    *)
(* step, 2*step, ... that numbers ceil(L / step) when the loop has ended.  *)
C17_TerminationAnyOverlap ==
    /\ [](pc \in {"loop", "done"} => SchedulePlan)
    /\ (pc = "loop") ~> LoopOver

(* C17, amended: the same for every overlap factor O <= C, that is for     *)
(* every step = C div O >= 1.                                              *)
C17_Termination ==
    /\ []((pc \in {"loop", "done"} /\ config.num_overlap <= chunk_size) => SchedulePlan)
    /\ (pc = "loop" /\ config.num_overlap <= chunk_size) ~> LoopOver

(* C17 witness: a loop that ended after several chunks, the buffer length  *)
(* not a multiple of the step                                              *)
C17_Witness ==
    /\ pc = "done"
    /\ step >= 2
    /\ BufferWidth % step # 0
    /\ Len(placements) >= 4
    /\ Len(placements) = (BufferWidth + step - 1) \div step

====
